---- MODULE Spec2Model ----
(***************************************************************************)
(* Model of the text-alignment core of Ripple's server                     *)
(* (src/server/text_segmentation.py): segment_texts and its helpers        *)
(* extract_linguistic_units, calculate_unit_similarity,                    *)
(* align_linguistic_units and basic_segmentation.                          *)
(*                                                                         *)
(* A Python str is a sequence of one-character strings, so that slicing,   *)
(* split(), strip(), lower() and concatenation are computed, not assumed.  *)
(* A float similarity is an exact rational <<n, d>> in lowest terms.       *)
(* The spaCy parser is the environment: a Doc is its token sequence (with  *)
(* each token's trailing whitespace) plus the annotations the code reads   *)
(* (sentence spans, noun chunks, verb anchors) and the failures it may     *)
(* raise.                                                                  *)
(***************************************************************************)
EXTENDS Integers, Sequences, FiniteSets, TLC

VARIABLES
    pc,               \* position of the call under way
    original,         \* argument of segment_texts / basic_segmentation
    suggested,        \* argument of segment_texts / basic_segmentation
    vec,              \* what the embedding facility answers in this run
    original_doc,     \* nlp(original[:max_chars]), NoDoc before the parse
    suggested_doc,    \* nlp(suggested[:max_chars]), NoDoc before the parse
    original_units,   \* extract_linguistic_units(original_doc)
    suggested_units,  \* extract_linguistic_units(suggested_doc)
    segments,         \* the aligner's local list of segments
    i,                \* the aligner's cursor into original_units
    j,                \* the aligner's cursor into suggested_units
    result,           \* the returned list, once pc = "done"
    process           \* the process around the call: the loaded parser and
                      \* the other invocation of segment_texts, if any

\* The local variables of one invocation (its frame).
locals == <<pc, original, suggested, vec, original_doc, suggested_doc,
            original_units, suggested_units, segments, i, j, result>>

vars == <<pc, original, suggested, vec, original_doc, suggested_doc,
          original_units, suggested_units, segments, i, j, result, process>>

\* The process of a specification that follows one call alone.
SingleCall == [phase |-> "single", nlp |-> [split |-> FALSE, fault |-> "none"],
               running |-> 1, frames |-> <<>>, alone |-> <<>>]

\* The value of original_doc and suggested_doc while no Doc has been built.
NoDoc == [tokens |-> <<>>, sents |-> <<>>, chunks |-> <<>>, verbs |-> {},
          fault |-> "no_doc"]

(***************************************************************************)
(* Python strings                                                          *)
(***************************************************************************)
Min(a, b) == IF a <= b THEN a ELSE b
Max(a, b) == IF a >= b THEN a ELSE b

\* s[a:b] for 0 <= a, 0 <= b: Python clamps both ends to len(s).
Slice(s, a, b) == SubSeq(s, a + 1, Min(b, Len(s)))

\* s[a:]
SliceFrom(s, a) == SubSeq(s, a + 1, Len(s))

RECURSIVE Concat(_)
\* "".join(ss), the texts of a list in order
Concat(ss) == IF ss = <<>> THEN <<>> ELSE Head(ss) \o Concat(Tail(ss))

RECURSIVE LStrip(_)
LStrip(s) == IF s # <<>> /\ Head(s) = " " THEN LStrip(Tail(s)) ELSE s

RECURSIVE RStrip(_)
RStrip(s) ==
    IF s # <<>> /\ s[Len(s)] = " " THEN RStrip(SubSeq(s, 1, Len(s) - 1)) ELSE s

\* str.strip()
Strip(s) == RStrip(LStrip(s))

LowerChar(c) ==
    CASE c = "A" -> "a"
      [] c = "B" -> "b"
      [] c = "C" -> "c"
      [] c = "D" -> "d"
      [] OTHER -> c

\* str.lower()
Lower(s) == [k \in 1..Len(s) |-> LowerChar(s[k])]

RECURSIVE SplitAcc(_, _, _, _)
SplitAcc(s, k, cur, acc) ==
    IF k > Len(s)
    THEN IF cur = <<>> THEN acc ELSE Append(acc, cur)
    ELSE IF s[k] = " "
         THEN SplitAcc(s, k + 1, <<>>, IF cur = <<>> THEN acc ELSE Append(acc, cur))
         ELSE SplitAcc(s, k + 1, Append(cur, s[k]), acc)

\* str.split(): the maximal runs of non-whitespace characters
Split(s) == SplitAcc(s, 1, <<>>, <<>>)

RECURSIVE SplitSepAcc(_, _, _, _)
SplitSepAcc(s, k, cur, acc) ==
    IF k > Len(s)
    THEN Append(acc, cur)
    ELSE IF k < Len(s) /\ s[k] = "." /\ s[k + 1] = " "
         THEN SplitSepAcc(s, k + 2, <<>>, Append(acc, cur))
         ELSE SplitSepAcc(s, k + 1, Append(cur, s[k]), acc)

\* str.split('. '): always at least one part, parts may be empty
SplitDotSpace(s) == SplitSepAcc(s, 1, <<>>, <<>>)

RECURSIVE Join(_)
\* " ".join(words)
Join(words) ==
    IF words = <<>> THEN <<>>
    ELSE IF Len(words) = 1 THEN words[1]
    ELSE words[1] \o <<" ">> \o Join(Tail(words))

\* set(words)
Range(f) == {f[k] : k \in DOMAIN f}

(***************************************************************************)
(* Floats as exact rationals <<n, d>>, d > 0, in lowest terms              *)
(***************************************************************************)
Abs(x) == IF x < 0 THEN -x ELSE x

RECURSIVE Gcd(_, _)
Gcd(a, b) == IF b = 0 THEN a ELSE Gcd(b, a % b)

Rat(n, d) ==
    LET g == Gcd(Abs(n), d) IN IF n = 0 THEN <<0, 1>> ELSE <<n \div g, d \div g>>

Zero == <<0, 1>>
One == <<1, 1>>
RatLess(x, y) == x[1] * y[2] < y[1] * x[2]
RatLeq(x, y) == x[1] * y[2] <= y[1] * x[2]
RatAdd(x, y) == Rat(x[1] * y[2] + y[1] * x[2], x[2] * y[2])
RatMul(x, y) == Rat(x[1] * y[1], x[2] * y[2])
InUnitInterval(x) == RatLeq(Zero, x) /\ RatLeq(x, One)

(***************************************************************************)
(* The spaCy Doc the code reads                                            *)
(*   tokens : sequence of [text, ws]; doc.text is the concatenation of     *)
(*            text \o ws (spaCy's tokenization is non-destructive)         *)
(*   sents  : doc.sents, consecutive token ranges <<first, last>>          *)
(*   chunks : noun chunks, disjoint token ranges in document order         *)
(*   verbs  : tokens with pos_ == "VERB" and dep_ in ROOT, ccomp, xcomp    *)
(*   fault  : "none", "noun_chunks" (sent.noun_chunks raises) or "sents"   *)
(*            (doc.sents raises)                                           *)
(***************************************************************************)
RECURSIVE TokensText(_)
TokensText(toks) ==
    IF toks = <<>> THEN <<>>
    ELSE Head(toks).text \o Head(toks).ws \o TokensText(Tail(toks))

\* doc.text
DocText(doc) == TokensText(doc.tokens)

\* token.idx: the character offset of token k in doc.text
TokenIdx(doc, k) == Len(TokensText(SubSeq(doc.tokens, 1, k - 1)))

\* Span.start_char, Span.end_char and Span.text: offsets into doc.text, the
\* trailing whitespace of the span's last token excluded
SpanStartChar(doc, span) == TokenIdx(doc, span[1])
SpanEndChar(doc, span) == TokenIdx(doc, span[2]) + Len(doc.tokens[span[2]].text)
SpanText(doc, span) ==
    Slice(DocText(doc), SpanStartChar(doc, span), SpanEndChar(doc, span))

(***************************************************************************)
(* extract_linguistic_units                                                *)
(***************************************************************************)
\* Sentences shorter than this many words are one unit (line 203).
short_sentence_words == 5

Unit(text, start, end) == [text |-> text, start |-> start, end |-> end]

\* The whole sentence as one unit (lines 204-208, 228-232 and 272-276).
SentenceUnit(doc, sent) ==
    Unit(SpanText(doc, sent), SpanStartChar(doc, sent), SpanEndChar(doc, sent))

InSpan(span, sent) == sent[1] <= span[1] /\ span[2] <= sent[2]

\* list(sent.noun_chunks): the noun chunks lying in the sentence, in order
NounChunksOf(doc, sent) == SelectSeq(doc.chunks, LAMBDA c : InSpan(c, sent))

RECURSIVE VerbSpansFrom(_, _, _)
VerbSpansFrom(doc, k, last) ==
    IF k > last THEN <<>>
    ELSE (IF k \in doc.verbs THEN << <<k, k>> >> ELSE <<>>)
         \o VerbSpansFrom(doc, k + 1, last)

\* doc[token.i:token.i+1] for each verb anchor of the sentence, in token order
VerbSpansOf(doc, sent) == VerbSpansFrom(doc, sent[1], sent[2])

RECURSIVE StableMerge(_, _)
\* chunks.sort(key=lambda x: x.start) of nouns + verbs: both lists are already
\* in token order and the sort is stable, so on a tie the noun chunk stays first
StableMerge(nouns, verbs) ==
    IF nouns = <<>> THEN verbs
    ELSE IF verbs = <<>> THEN nouns
    ELSE IF Head(nouns)[1] <= Head(verbs)[1]
         THEN <<Head(nouns)>> \o StableMerge(Tail(nouns), verbs)
         ELSE <<Head(verbs)>> \o StableMerge(nouns, Tail(verbs))

SortedChunks(doc, sent) == StableMerge(NounChunksOf(doc, sent), VerbSpansOf(doc, sent))

\* chunk_start = sent.start_char + chunk.start_char, where spaCy's
\* Span.start_char already is an offset into the document
ChunkStart(doc, sent, chunk) == SpanStartChar(doc, sent) + SpanStartChar(doc, chunk)

\* if between_text.strip(): only text that is not all whitespace becomes a unit
KeepConnective(text) == Strip(text) # <<>>

RECURSIVE ChunkLoop(_, _, _, _, _, _)
\* The loop over the sorted chunks and the remainder after it.
ChunkLoop(doc, sent, chunks, k, last_end, units) ==
    IF k > Len(chunks)
    THEN LET sent_end == SpanEndChar(doc, sent)
             remaining_text == Slice(DocText(doc), last_end, sent_end)
         IN  IF last_end < sent_end /\ KeepConnective(remaining_text)
             THEN Append(units, Unit(remaining_text, last_end, sent_end))
             ELSE units
    ELSE LET chunk_text == SpanText(doc, chunks[k])
             chunk_start == ChunkStart(doc, sent, chunks[k])
             chunk_end == chunk_start + Len(chunk_text)
             between_text == Slice(DocText(doc), last_end, chunk_start)
             with_between ==
                 IF chunk_start > last_end /\ KeepConnective(between_text)
                 THEN Append(units, Unit(between_text, last_end, chunk_start))
                 ELSE units
         IN  ChunkLoop(doc, sent, chunks, k + 1, chunk_end,
                       Append(with_between, Unit(chunk_text, chunk_start, chunk_end)))

\* The units of one sentence (the body of the loop over doc.sents).
SentenceUnits(doc, sent) ==
    IF Len(Split(SpanText(doc, sent))) < short_sentence_words
    THEN <<SentenceUnit(doc, sent)>>
    ELSE IF doc.fault = "noun_chunks"
    THEN <<SentenceUnit(doc, sent)>>
    ELSE IF SortedChunks(doc, sent) = <<>>
    THEN <<SentenceUnit(doc, sent)>>
    ELSE ChunkLoop(doc, sent, SortedChunks(doc, sent), 1,
                   SpanStartChar(doc, sent), <<>>)

RECURSIVE SentsLoop(_, _)
SentsLoop(doc, k) ==
    IF k > Len(doc.sents) THEN <<>>
    ELSE SentenceUnits(doc, doc.sents[k]) \o SentsLoop(doc, k + 1)

\* doc.sents raising is caught by the outer handler, whose own loop over
\* doc.sents raises again: the whole text becomes one unit.
extract_linguistic_units(doc) ==
    IF Len(doc.tokens) = 0 THEN <<>>
    ELSE IF doc.fault = "sents"
    THEN <<Unit(DocText(doc), 0, Len(DocText(doc)))>>
    ELSE SentsLoop(doc, 1)

UnitTexts(units) == [k \in 1..Len(units) |-> units[k].text]

(***************************************************************************)
(* calculate_unit_similarity                                               *)
(*                                                                         *)
(* The vector step's outcome is the environment's: nlp(snippet) raises,    *)
(* a snippet has no vector, or snippet1.similarity(snippet2) is a score.   *)
(* The parser being one fixed function, a run has one outcome, vec.        *)
(***************************************************************************)
VecRaise == [kind |-> "raise", score |-> Zero]
NoVector == [kind |-> "no_vector", score |-> Zero]
VecScore(x) == [kind |-> "score", score |-> x]

\* Both texts need this many distinct words for the vector step (line 331).
vector_min_words == 3

jaccard_weight == <<7, 10>>
vector_weight == <<3, 10>>

\* if 0 <= cosine_sim <= 1 (line 344)
ScoreReasonable_Unchecked(cosine_sim) == TRUE
ScoreReasonable(cosine_sim) == InUnitInterval(cosine_sim)

Jaccard(words1, words2) ==
    Rat(Cardinality(words1 \cap words2), Cardinality(words1 \cup words2))

\* calculate_unit_similarity without lines 310-314 used as a return.
calculate_unit_similarity_NoNormalizedCheck(text1, text2, v) ==
    IF text1 = <<>> \/ text2 = <<>> THEN Zero
    ELSE IF text1 = text2 THEN One
    ELSE LET words1 == Range(Split(Lower(Strip(text1))))
             words2 == Range(Split(Lower(Strip(text2))))
             jaccard == Jaccard(words1, words2)
         IN  IF words1 = {} \/ words2 = {} THEN Zero
             ELSE IF /\ Cardinality(words1) >= vector_min_words
                     /\ Cardinality(words2) >= vector_min_words
                     /\ v.kind = "score"
                     /\ ScoreReasonable(v.score)
                  THEN RatAdd(RatMul(jaccard, jaccard_weight),
                              RatMul(v.score, vector_weight))
                  ELSE jaccard

calculate_unit_similarity(text1, text2, v) ==
    IF text1 = <<>> \/ text2 = <<>> THEN Zero
    ELSE IF text1 = text2 THEN One
    ELSE LET text1_norm == Lower(Strip(text1))
             text2_norm == Lower(Strip(text2))
             words1 == Range(Split(text1_norm))
             words2 == Range(Split(text2_norm))
             jaccard == Jaccard(words1, words2)
         IN  IF text1_norm = text2_norm THEN One
             ELSE IF words1 = {} \/ words2 = {} THEN Zero
             ELSE IF /\ Cardinality(words1) >= vector_min_words
                     /\ Cardinality(words2) >= vector_min_words
                     /\ v.kind = "score"
                     /\ ScoreReasonable(v.score)
                  THEN RatAdd(RatMul(jaccard, jaccard_weight),
                              RatMul(v.score, vector_weight))
                  ELSE jaccard

(***************************************************************************)
(* basic_segmentation                                                      *)
(***************************************************************************)
Segment(o, s, sim) == [original |-> o, suggested |-> s, similarity |-> sim]

\* 1.0 if a == b else 0.0
ExactMatch(a, b) == IF a = b THEN One ELSE Zero

\* Texts of at most this many words on both sides stay whole (line 58).
short_text_words == 3
\* Words per chunk (line 67).
chunk_size == 3

\* The chunk loop running to the end of the shorter side only.
WordChunks_ShorterSide(orig_words, sugg_words, k) ==
    LET n == Min(Len(orig_words), Len(sugg_words))
        count == (n - k + chunk_size - 1) \div chunk_size
    IN  [m \in 1..count |->
            LET a == k + (m - 1) * chunk_size
                orig_chunk == Join(Slice(orig_words, a, a + chunk_size))
                sugg_chunk == Join(Slice(sugg_words, a, a + chunk_size))
            IN  Segment(orig_chunk, sugg_chunk, ExactMatch(orig_chunk, sugg_chunk))]

RECURSIVE WordChunks(_, _, _)
\* for i in range(0, max(len(orig_words), len(sugg_words)), chunk_size)
WordChunks(orig_words, sugg_words, k) ==
    IF k >= Max(Len(orig_words), Len(sugg_words)) THEN <<>>
    ELSE LET orig_chunk == IF k < Len(orig_words)
                           THEN Join(Slice(orig_words, k, k + chunk_size)) ELSE <<>>
             sugg_chunk == IF k < Len(sugg_words)
                           THEN Join(Slice(sugg_words, k, k + chunk_size)) ELSE <<>>
         IN  <<Segment(orig_chunk, sugg_chunk, ExactMatch(orig_chunk, sugg_chunk))>>
             \o WordChunks(orig_words, sugg_words, k + chunk_size)

RECURSIVE SentencePairs(_, _, _)
\* for i in range(max_len): the parts paired by index, '. ' appended back
SentencePairs(orig_parts, sugg_parts, k) ==
    IF k > Max(Len(orig_parts), Len(sugg_parts)) THEN <<>>
    ELSE LET orig_text == IF k <= Len(orig_parts)
                          THEN orig_parts[k] \o <<".", " ">> ELSE <<>>
             sugg_text == IF k <= Len(sugg_parts)
                          THEN sugg_parts[k] \o <<".", " ">> ELSE <<>>
         IN  (IF orig_text = <<>> /\ sugg_text = <<>> THEN <<>>
              ELSE <<Segment(orig_text, sugg_text, ExactMatch(orig_text, sugg_text))>>)
             \o SentencePairs(orig_parts, sugg_parts, k + 1)

basic_segmentation(o, s) ==
    LET orig_parts == SplitDotSpace(o)
        sugg_parts == SplitDotSpace(s)
        orig_words == Split(o)
        sugg_words == Split(s)
    IN  IF Len(orig_parts) = 1 /\ Len(sugg_parts) = 1
        THEN IF Len(orig_words) <= short_text_words /\ Len(sugg_words) <= short_text_words
             THEN <<Segment(o, s, ExactMatch(o, s))>>
             ELSE WordChunks(orig_words, sugg_words, 0)
        ELSE SentencePairs(orig_parts, sugg_parts, 1)

(***************************************************************************)
(* Documents for the extractor alone: every annotation the parser may      *)
(* give to a text of up to MaxTokens one-letter words separated by single  *)
(* blanks, split into up to MaxSents sentences, with up to two noun        *)
(* chunks and up to one verb anchor.  The words are pairwise distinct, so  *)
(* no two different slices of a document read the same.                    *)
(***************************************************************************)
MaxTokens == 6
MaxSents == 2

Letters == <<"a", "b", "c", "d", "e", "f", "g", "h">>

WordTokens(n, last_ws) ==
    [k \in 1..n |-> [text |-> <<Letters[k]>>,
                     ws |-> IF k < n THEN <<" ">> ELSE last_ws]]

RECURSIVE SentsFromCuts(_, _, _)
\* the sentences that end after the tokens of `cuts` and after token n
SentsFromCuts(first, n, cuts) ==
    IF cuts = {} THEN << <<first, n>> >>
    ELSE LET c == CHOOSE x \in cuts : \A y \in cuts : x <= y
         IN  << <<first, c>> >> \o SentsFromCuts(c + 1, n, cuts \ {c})

SentenceSplits(n) ==
    {SentsFromCuts(1, n, cuts) :
        cuts \in {c \in SUBSET (1..(n - 1)) : Cardinality(c) < MaxSents}}

TokenRanges(n) == {<<a, b>> \in (1..n) \X (1..n) : a <= b}

WithinOneSentence(sents, span) == \E k \in 1..Len(sents) : InSpan(span, sents[k])

NounChunkLists(n, sents) ==
    LET spans == {r \in TokenRanges(n) : WithinOneSentence(sents, r)}
    IN  {<<>>} \cup {<<r>> : r \in spans}
        \cup {<<r, q>> : <<r, q>> \in {p \in spans \X spans : p[1][2] < p[2][1]}}

VerbSets(n) == {{}} \cup {{v} : v \in 1..n}

ExtractFaults == {"none", "noun_chunks", "sents"}

EmptyDoc == [tokens |-> <<>>, sents |-> <<>>, chunks |-> <<>>, verbs |-> {},
             fault |-> "none"]

(***************************************************************************)
(* SpecExtract: extract_linguistic_units applied to one document           *)
(***************************************************************************)
InitExtract ==
    /\ pc = "extract"
    /\ \/ original_doc = EmptyDoc
       \/ \E n \in 1..MaxTokens, last_ws \in {<<>>, <<" ">>} :
            \E sents \in SentenceSplits(n) :
              \E chunks \in NounChunkLists(n, sents), verbs \in VerbSets(n),
                 fault \in ExtractFaults :
                original_doc = [tokens |-> WordTokens(n, last_ws), sents |-> sents,
                                chunks |-> chunks, verbs |-> verbs, fault |-> fault]
    /\ original = DocText(original_doc)
    /\ suggested = <<>>
    /\ vec = NoVector
    /\ suggested_doc = NoDoc
    /\ original_units = <<>>
    /\ suggested_units = <<>>
    /\ segments = <<>>
    /\ i = 0
    /\ j = 0
    /\ result = <<>>
    /\ process = SingleCall

\* units = extract_linguistic_units(doc)
ExtractCall ==
    /\ pc = "extract"
    /\ original_units' = extract_linguistic_units(original_doc)
    /\ pc' = "extracted"
    /\ UNCHANGED <<original, suggested, vec, original_doc, suggested_doc,
                   suggested_units, segments, i, j, result>>
    /\ UNCHANGED process

NextExtract == ExtractCall

SpecExtract == InitExtract /\ [][NextExtract]_vars

(***************************************************************************)
(* align_linguistic_units: the state of one call is original_units,        *)
(* suggested_units, segments and the cursors i, j (0-based, as in the      *)
(* code); each iteration of the main loop is one step.                     *)
(***************************************************************************)
\* if similarity > 0.7 (lines 389, 414 and 428)
match_threshold == <<7, 10>>
\* min(3, ...) (line 399)
lookahead_window == 3

\* similarity >= 0.7
IsMatch_AtLeast(sim) == RatLeq(match_threshold, sim)
IsMatch(sim) == RatLess(match_threshold, sim)

\* calculate_unit_similarity(original_units[a]["text"], suggested_units[b]["text"], ...)
UnitSimilarity(a, b) ==
    calculate_unit_similarity(original_units[a + 1].text, suggested_units[b + 1].text, vec)

\* max_lookahead = min(3, len(original_units) - i, len(suggested_units) - j)
MaxLookahead ==
    Min(lookahead_window, Min(Len(original_units) - i, Len(suggested_units) - j))

\* A lookahead candidate replaces the best one so far (lines 414 and 428).
\* The first matching candidate stays the best one.
Better_Nearest(sim, best_similarity) == IsMatch(sim) /\ best_similarity = Zero
Better(sim, best_similarity) == IsMatch(sim) /\ RatLess(best_similarity, sim)

RECURSIVE LookAheadOriginal(_, _)
\* for k in range(1, max_lookahead + 1) over the original units (lines 405-416);
\* best is <<best_original_match, best_similarity>>
LookAheadOriginal(k, best) ==
    IF k > MaxLookahead \/ i + k >= Len(original_units) THEN best
    ELSE LET sim == UnitSimilarity(i + k, j)
         IN  LookAheadOriginal(k + 1, IF Better(sim, best[2]) THEN <<i + k, sim>> ELSE best)

RECURSIVE LookAheadSuggested(_, _)
\* for k in range(1, max_lookahead + 1) over the suggested units (lines 419-430);
\* best_similarity carries over from the original-side loop
LookAheadSuggested(k, best) ==
    IF k > MaxLookahead \/ j + k >= Len(suggested_units) THEN best
    ELSE LET sim == UnitSimilarity(i, j + k)
         IN  LookAheadSuggested(k + 1, IF Better(sim, best[2]) THEN <<j + k, sim>> ELSE best)

BestOriginal == LookAheadOriginal(1, <<-1, Zero>>)
best_original_match == BestOriginal[1]
best_suggested_match == LookAheadSuggested(1, <<-1, BestOriginal[2]>>)[1]

\* combined += units[k]["text"] for k in range(from, to)
CombinedText(units, from, to) == Concat(UnitTexts(SubSeq(units, from + 1, to)))

\* {"original": text, "suggested": "", "similarity": 0} (lines 370, 438-442, 482-486)
DeletionSegment_Similar(text) == Segment(text, <<>>, One)
DeletionSegment(text) == Segment(text, <<>>, Zero)

\* {"original": "", "suggested": text, "similarity": 0} (lines 368, 451-455, 491-495)
InsertionSegment(text) == Segment(<<>>, text, Zero)

InLoop == pc = "loop" /\ i < Len(original_units) /\ j < Len(suggested_units)

\* Lines 365-374: the empty-input returns, else the cursors are set to 0.
AlignStart ==
    /\ pc = "align"
    /\ IF original_units = <<>> /\ suggested_units = <<>>
       THEN segments' = <<>> /\ pc' = "aligned" /\ UNCHANGED <<i, j>>
       ELSE IF original_units = <<>>
       THEN /\ segments' = [k \in 1..Len(suggested_units) |->
                               InsertionSegment(suggested_units[k].text)]
            /\ pc' = "aligned" /\ UNCHANGED <<i, j>>
       ELSE IF suggested_units = <<>>
       THEN /\ segments' = [k \in 1..Len(original_units) |->
                               DeletionSegment(original_units[k].text)]
            /\ pc' = "aligned" /\ UNCHANGED <<i, j>>
       ELSE segments' = <<>> /\ i' = 0 /\ j' = 0 /\ pc' = "loop"
    /\ UNCHANGED <<original, suggested, vec, original_doc, suggested_doc,
                   original_units, suggested_units, result>>
    /\ UNCHANGED process

\* Lines 389-396: the units at the cursors are similar.
Match ==
    /\ InLoop
    /\ IsMatch(UnitSimilarity(i, j))
    /\ segments' = Append(segments, Segment(original_units[i + 1].text,
                                             suggested_units[j + 1].text,
                                             UnitSimilarity(i, j)))
    /\ i' = i + 1
    /\ j' = j + 1
    /\ UNCHANGED <<pc, original, suggested, vec, original_doc, suggested_doc,
                   original_units, suggested_units, result>>
    /\ UNCHANGED process

\* The skip that also consumes the matched pair.
SkipOriginal_ConsumesPair ==
    /\ InLoop
    /\ ~IsMatch(UnitSimilarity(i, j))
    /\ best_original_match # -1
    /\ segments' = Append(segments,
            DeletionSegment(CombinedText(original_units, i, best_original_match)))
    /\ i' = best_original_match + 1
    /\ j' = j + 1
    /\ UNCHANGED <<pc, original, suggested, vec, original_doc, suggested_doc,
                   original_units, suggested_units, result>>
    /\ UNCHANGED process

\* The deletion skip leaving the cursor one past the unit it found.
SkipOriginal_PastMatch ==
    /\ InLoop
    /\ ~IsMatch(UnitSimilarity(i, j))
    /\ best_original_match # -1
    /\ segments' = Append(segments,
            DeletionSegment(CombinedText(original_units, i, best_original_match)))
    /\ i' = best_original_match + 1
    /\ UNCHANGED <<pc, j, original, suggested, vec, original_doc, suggested_doc,
                   original_units, suggested_units, result>>
    /\ UNCHANGED process

\* Lines 432-444: a later original unit matches the current suggested unit.
SkipOriginal ==
    /\ InLoop
    /\ ~IsMatch(UnitSimilarity(i, j))
    /\ best_original_match # -1
    /\ segments' = Append(segments,
            DeletionSegment(CombinedText(original_units, i, best_original_match)))
    /\ i' = best_original_match
    /\ UNCHANGED <<pc, j, original, suggested, vec, original_doc, suggested_doc,
                   original_units, suggested_units, result>>
    /\ UNCHANGED process

\* The insertion skip taken whatever the original-side lookahead found.
SkipSuggested_Unconditional ==
    /\ InLoop
    /\ ~IsMatch(UnitSimilarity(i, j))
    /\ best_suggested_match # -1
    /\ segments' = Append(segments,
            InsertionSegment(CombinedText(suggested_units, j, best_suggested_match)))
    /\ j' = best_suggested_match
    /\ UNCHANGED <<pc, i, original, suggested, vec, original_doc, suggested_doc,
                   original_units, suggested_units, result>>
    /\ UNCHANGED process

\* Lines 445-457: a later suggested unit matches the current original unit.
SkipSuggested ==
    /\ InLoop
    /\ ~IsMatch(UnitSimilarity(i, j))
    /\ best_original_match = -1
    /\ best_suggested_match # -1
    /\ segments' = Append(segments,
            InsertionSegment(CombinedText(suggested_units, j, best_suggested_match)))
    /\ j' = best_suggested_match
    /\ UNCHANGED <<pc, i, original, suggested, vec, original_doc, suggested_doc,
                   original_units, suggested_units, result>>
    /\ UNCHANGED process

\* The forced pair with its similarity reset.
ForceMatch_Zero ==
    /\ InLoop
    /\ ~IsMatch(UnitSimilarity(i, j))
    /\ best_original_match = -1
    /\ best_suggested_match = -1
    /\ segments' = Append(segments, Segment(original_units[i + 1].text,
                                             suggested_units[j + 1].text, Zero))
    /\ i' = i + 1
    /\ j' = j + 1
    /\ UNCHANGED <<pc, original, suggested, vec, original_doc, suggested_doc,
                   original_units, suggested_units, result>>
    /\ UNCHANGED process

\* Lines 458-467: no match ahead, the pair is emitted with its similarity.
ForceMatch ==
    /\ InLoop
    /\ ~IsMatch(UnitSimilarity(i, j))
    /\ best_original_match = -1
    /\ best_suggested_match = -1
    /\ segments' = Append(segments, Segment(original_units[i + 1].text,
                                             suggested_units[j + 1].text,
                                             UnitSimilarity(i, j)))
    /\ i' = i + 1
    /\ j' = j + 1
    /\ UNCHANGED <<pc, original, suggested, vec, original_doc, suggested_doc,
                   original_units, suggested_units, result>>
    /\ UNCHANGED process

\* The drain without the loop over the remaining suggested units.
Drain_OriginalsOnly ==
    /\ pc = "loop"
    /\ ~(i < Len(original_units) /\ j < Len(suggested_units))
    /\ segments' = segments
          \o [k \in 1..(Len(original_units) - i) |->
                 DeletionSegment(original_units[i + k].text)]
    /\ i' = Len(original_units)
    /\ j' = Len(suggested_units)
    /\ pc' = "merge"
    /\ UNCHANGED <<original, suggested, vec, original_doc, suggested_doc,
                   original_units, suggested_units, result>>
    /\ UNCHANGED process

\* Lines 479-496: the two loops over the units left on one side.
Drain ==
    /\ pc = "loop"
    /\ ~(i < Len(original_units) /\ j < Len(suggested_units))
    /\ segments' = segments
          \o [k \in 1..(Len(original_units) - i) |->
                 DeletionSegment(original_units[i + k].text)]
          \o [k \in 1..(Len(suggested_units) - j) |->
                 InsertionSegment(suggested_units[j + k].text)]
    /\ i' = Len(original_units)
    /\ j' = Len(suggested_units)
    /\ pc' = "merge"
    /\ UNCHANGED <<original, suggested, vec, original_doc, suggested_doc,
                   original_units, suggested_units, result>>
    /\ UNCHANGED process

\* Lines 505-507: the current segment is very short.
IsShort(current) ==
    \/ Len(Split(current.original)) <= 1 /\ Len(Split(current.suggested)) <= 1
    \/ current.original = <<>> /\ Len(Split(current.suggested)) <= 2
    \/ current.suggested = <<>> /\ Len(Split(current.original)) <= 2

\* Lines 508-512: the current segment merged with the next one.
Merged_KeepSimilarity(current, next) ==
    Segment(current.original \o next.original,
            current.suggested \o next.suggested, current.similarity)
Merged(current, next) ==
    Segment(current.original \o next.original,
            current.suggested \o next.suggested, Zero)

RECURSIVE MergeLoop(_, _, _, _)
\* for i in range(1, len(segments)), then merged_segments.append(current)
MergeLoop(segs, k, current, merged_segments) ==
    IF k > Len(segs) THEN Append(merged_segments, current)
    ELSE IF IsShort(current)
         THEN MergeLoop(segs, k + 1, Merged(current, segs[k]), merged_segments)
         ELSE MergeLoop(segs, k + 1, segs[k], Append(merged_segments, current))

\* Lines 498-520; the loop variable of the merge is the cursor i.
MergeShort ==
    /\ pc = "merge"
    /\ IF Len(segments) > 1
       THEN /\ segments' = MergeLoop(segments, 2, segments[1], <<>>)
            /\ i' = Len(segments) - 1
       ELSE UNCHANGED <<segments, i>>
    /\ pc' = "aligned"
    /\ UNCHANGED <<j, original, suggested, vec, original_doc, suggested_doc,
                   original_units, suggested_units, result>>
    /\ UNCHANGED process

(***************************************************************************)
(* nlp(text): the parser, as far as the code reads its result.             *)
(* Tokenization keeps the text: a word is a token, a '.' is a token of its *)
(* own, a single blank after a token is that token's trailing whitespace   *)
(* and any other blank is a whitespace token.  What the statistical model  *)
(* adds is one of ParserModels: sentences end after each '.' or the text   *)
(* is one sentence; the first two tokens of a sentence are a noun chunk    *)
(* and the third its verb anchor; doc.sents or sent.noun_chunks may raise. *)
(***************************************************************************)
IsWordToken(tok) == tok.text[1] \notin {" ", "."}

RECURSIVE TokenizeAcc(_, _, _)
TokenizeAcc(s, k, acc) ==
    IF k > Len(s) THEN acc
    ELSE LET n == Len(acc)
             open == n > 0 /\ acc[n].ws = <<>>
             next ==
                 IF s[k] = " "
                 THEN IF open /\ acc[n].text # <<" ">>
                      THEN [acc EXCEPT ![n].ws = <<" ">>]
                      ELSE Append(acc, [text |-> <<" ">>, ws |-> <<>>])
                 ELSE IF s[k] # "." /\ open /\ IsWordToken(acc[n])
                      THEN [acc EXCEPT ![n].text = Append(acc[n].text, s[k])]
                      ELSE Append(acc, [text |-> <<s[k]>>, ws |-> <<>>])
         IN  TokenizeAcc(s, k + 1, next)

Tokenize(s) == TokenizeAcc(s, 1, <<>>)

RECURSIVE SentencesAtDots(_, _, _)
SentencesAtDots(tokens, first, k) ==
    IF k > Len(tokens)
    THEN IF first <= Len(tokens) THEN << <<first, Len(tokens)>> >> ELSE <<>>
    ELSE IF tokens[k].text = <<".">>
         THEN << <<first, k>> >> \o SentencesAtDots(tokens, k + 1, k + 1)
         ELSE SentencesAtDots(tokens, first, k + 1)

ParserModels == [split : BOOLEAN, fault : ExtractFaults]

nlp(text, model) ==
    LET tokens == Tokenize(text)
        sents == IF model.split THEN SentencesAtDots(tokens, 1, 1)
                 ELSE IF tokens = <<>> THEN <<>> ELSE << <<1, Len(tokens)>> >>
        with_chunk == SelectSeq(sents, LAMBDA sent : sent[2] > sent[1])
    IN  [tokens |-> tokens,
         sents |-> sents,
         chunks |-> [k \in 1..Len(with_chunk) |->
                        <<with_chunk[k][1], with_chunk[k][1] + 1>>],
         verbs |-> {sents[k][1] + 2 : k \in {m \in 1..Len(sents) : sents[m][2] >= sents[m][1] + 2}},
         fault |-> model.fault]

(***************************************************************************)
(* segment_texts                                                           *)
(***************************************************************************)
\* The code's 5000 (line 133), scaled to the length of the model's texts.
max_chars == 11

\* Lines 117-127: the returns for an empty argument.
IsEmptyInput_BothOnly(o, s) == o = <<>> /\ s = <<>>
IsEmptyInput(o, s) == o = <<>> \/ s = <<>>

EmptyInputResult(o, s) ==
    IF o = <<>> /\ s = <<>> THEN <<>>
    ELSE IF o = <<>> THEN <<Segment(<<>>, s, Zero)>>
    ELSE <<Segment(o, <<>>, Zero)>>

\* Lines 177-186: the inner handler logs and re-raises, the outer handler
\* absorbs the exception and runs basic_segmentation.
OnParseError_Propagates == "raised"
OnParseError == "fallback"

\* Lines 168-173: the text beyond max_chars, as one more segment.
Truncated_Always(o, s) == TRUE
Truncated(o, s) == Len(o) > max_chars \/ Len(s) > max_chars

Remainder_WholeTexts(o, s) == Segment(o, s, Zero)
Remainder(o, s) ==
    Segment(IF Len(o) > max_chars THEN SliceFrom(o, max_chars) ELSE <<>>,
            IF Len(s) > max_chars THEN SliceFrom(s, max_chars) ELSE <<>>,
            Zero)

EmptyInput ==
    /\ pc = "start"
    /\ IsEmptyInput(original, suggested)
    /\ result' = EmptyInputResult(original, suggested)
    /\ pc' = "done"
    /\ UNCHANGED <<original, suggested, vec, original_doc, suggested_doc,
                   original_units, suggested_units, segments, i, j>>
    /\ UNCHANGED process

\* Lines 140-141: both texts are parsed by the one parser.
NlpParse ==
    /\ pc = "start"
    /\ ~IsEmptyInput(original, suggested)
    /\ \E model \in ParserModels :
          /\ original_doc' = nlp(Slice(original, 0, max_chars), model)
          /\ suggested_doc' = nlp(Slice(suggested, 0, max_chars), model)
    /\ pc' = "extract_units"
    /\ UNCHANGED <<original, suggested, vec, original_units, suggested_units,
                   segments, i, j, result>>
    /\ UNCHANGED process

\* Lines 140-141 raising.
NlpRaise ==
    /\ pc = "start"
    /\ ~IsEmptyInput(original, suggested)
    /\ pc' = OnParseError
    /\ UNCHANGED <<original, suggested, vec, original_doc, suggested_doc,
                   original_units, suggested_units, segments, i, j, result>>
    /\ UNCHANGED process

\* Lines 146-160.
ExtractUnits ==
    /\ pc = "extract_units"
    /\ original_units' = extract_linguistic_units(original_doc)
    /\ suggested_units' = extract_linguistic_units(suggested_doc)
    /\ pc' = "align"
    /\ UNCHANGED <<original, suggested, vec, original_doc, suggested_doc,
                   segments, i, j, result>>
    /\ UNCHANGED process

\* Lines 164-176: the aligner has returned.
Return ==
    /\ pc = "aligned"
    /\ segments' = IF Truncated(original, suggested)
                   THEN Append(segments, Remainder(original, suggested))
                   ELSE segments
    /\ result' = segments'
    /\ pc' = "done"
    /\ UNCHANGED <<original, suggested, vec, original_doc, suggested_doc,
                   original_units, suggested_units, i, j>>
    /\ UNCHANGED process

\* Line 186.
Fallback ==
    /\ pc = "fallback"
    /\ result' = basic_segmentation(original, suggested)
    /\ pc' = "done"
    /\ UNCHANGED <<original, suggested, vec, original_doc, suggested_doc,
                   original_units, suggested_units, segments, i, j>>
    /\ UNCHANGED process

(***************************************************************************)
(* Spec: one call of segment_texts on texts of up to MaxTextSentences      *)
(* sentences of InputSentences, separated by single blanks.                *)
(***************************************************************************)
MaxTextSentences == 2

InputSentences ==
    { <<"a", ".">>,
      <<"a", " ", "b", " ", "c", ".">>,
      <<"B", " ", "a", " ", "c", ".">> }

VecScores == {<<-1, 2>>, Zero, <<1, 2>>, One, <<3, 2>>}
VecOutcomes == {VecRaise, NoVector} \cup {VecScore(x) : x \in VecScores}

IsInputText(text) ==
    \E n \in 0..MaxTextSentences :
        \E ss \in [1..n -> InputSentences] : text = Join(ss)

Init ==
    /\ pc = "start"
    /\ IsInputText(original)
    /\ IsInputText(suggested)
    /\ vec \in VecOutcomes
    /\ original_doc = NoDoc
    /\ suggested_doc = NoDoc
    /\ original_units = <<>>
    /\ suggested_units = <<>>
    /\ segments = <<>>
    /\ i = 0
    /\ j = 0
    /\ result = <<>>
    /\ process = SingleCall

Next ==
    \/ EmptyInput
    \/ NlpParse
    \/ NlpRaise
    \/ ExtractUnits
    \/ AlignStart
    \/ Match
    \/ SkipOriginal
    \/ SkipSuggested
    \/ ForceMatch
    \/ Drain
    \/ MergeShort
    \/ Return
    \/ Fallback

Spec == Init /\ [][Next]_vars

(***************************************************************************)
(* Properties of segment_texts (Spec)                                      *)
(***************************************************************************)
Originals(segs) == Concat([k \in 1..Len(segs) |-> segs[k].original])
Suggesteds(segs) == Concat([k \in 1..Len(segs) |-> segs[k].suggested])

IsSegmentList(segs) ==
    /\ DOMAIN segs = 1..Len(segs)
    /\ \A k \in 1..Len(segs) :
          DOMAIN segs[k] = {"original", "suggested", "similarity"}

\* The call went through the parser (not through the fallback segmenter).
Parsed == original_doc # NoDoc /\ suggested_doc # NoDoc

\* C1 (totality): a call of segment_texts on two strings never ends in an
\* exception: it is at a control point of the call from which a step is
\* defined (the guards of the steps at "start" and at "loop" are exhaustive)
\* or it has returned, and what it returns is a list of segments, also when
\* the parser, the sentence iterator, the noun chunker or the vector step
\* raises.
Totality ==
    /\ pc # "raised"
    /\ pc \in {"start", "extract_units", "align", "loop", "merge", "aligned",
               "fallback", "done"}
    /\ pc \in {"align", "merge", "aligned", "fallback"}
          => ENABLED (AlignStart \/ MergeShort \/ Return \/ Fallback)
    /\ pc = "done" => IsSegmentList(result)

\* The parser raised, and the call returned the fallback segmenter's list.
TotalityWitness ==
    /\ pc = "done"
    /\ ~IsEmptyInput(original, suggested)
    /\ ~Parsed
    /\ result = basic_segmentation(original, suggested)
    /\ result # <<>>

\* C2 (no double-empty segments): no segment of the aligner's list or of the
\* returned list has both its original and its suggested text empty.
NoDoubleEmpty ==
    /\ \A k \in 1..Len(segments) :
          ~(segments[k].original = <<>> /\ segments[k].suggested = <<>>)
    /\ \A k \in 1..Len(result) :
          ~(result[k].original = <<>> /\ result[k].suggested = <<>>)

\* A truncated call has returned: its last segment is the remainder, with
\* one side empty, and an earlier segment of the aligner is one-sided too.
NoDoubleEmptyWitness ==
    /\ pc = "done"
    /\ Parsed
    /\ Truncated(original, suggested)
    /\ result[Len(result)].original = <<>>
    /\ result[Len(result)].suggested # <<>>
    /\ \E k \in 1..(Len(result) - 1) :
          result[k].suggested = <<>> \/ result[k].original = <<>>

\* C3 (order preservation), on the inputs the parser accepts and max_chars
\* does not truncate: the original texts of the returned segments, in order,
\* concatenate to the original argument, and the suggested texts to the
\* suggested argument.
OrderPreserved ==
    pc = "done" /\ Parsed /\ ~Truncated(original, suggested)
        => Originals(result) = original /\ Suggesteds(result) = suggested

\* C4 (identity), on the inputs the parser accepts and max_chars does not
\* truncate: segment_texts(s, s) for a non-empty s returns segments whose
\* texts concatenate to s on both sides, every one with similarity 1.0.
IdentityAllOnes ==
    pc = "done" /\ Parsed /\ ~Truncated(original, suggested)
    /\ original = suggested /\ original # <<>>
        => /\ Originals(result) = original
           /\ Suggesteds(result) = suggested
           /\ \A k \in 1..Len(result) : result[k].similarity = One

\* C5 (similarity bounds): the similarity of every segment of the aligner's
\* list and of the returned list lies in [0, 1], and so does
\* calculate_unit_similarity on every pair of an original and a suggested
\* unit, whatever the vector step answers.
SimilarityBounds ==
    /\ \A k \in 1..Len(segments) : InUnitInterval(segments[k].similarity)
    /\ \A k \in 1..Len(result) : InUnitInterval(result[k].similarity)
    /\ \A a \in 0..(Len(original_units) - 1), b \in 0..(Len(suggested_units) - 1) :
          InUnitInterval(UnitSimilarity(a, b))

\* A returned segment carries a blended score: 0.7 * 1 + 0.3 * 1/2.
SimilarityBoundsWitness ==
    /\ pc = "done"
    /\ vec = VecScore(<<1, 2>>)
    /\ \E k \in 1..Len(result) : result[k].similarity = <<17, 20>>

\* C7 (empty inputs): a call with an empty argument is at its start or has
\* returned, with no Doc, no units and no aligner segments built on the way;
\* it returns the empty list for two empty arguments and else one segment
\* holding the non-empty argument, with similarity 0.
EmptyInputs ==
    original = <<>> \/ suggested = <<>>
        => /\ pc \in {"start", "done"}
           /\ original_doc = NoDoc /\ suggested_doc = NoDoc
           /\ original_units = <<>> /\ suggested_units = <<>>
           /\ segments = <<>>
           /\ pc = "done" =>
                 result = IF original = <<>> /\ suggested = <<>> THEN <<>>
                          ELSE <<[original |-> original, suggested |-> suggested,
                                  similarity |-> Zero]>>

\* segment_texts("", s) has returned its one segment.
EmptyInputsWitness ==
    /\ pc = "done"
    /\ original = <<>>
    /\ suggested # <<>>
    /\ Len(result) = 1
    /\ result[1].suggested = suggested

\* C8 (one-sided segments score 0): in the aligner's list and in the returned
\* list, a segment with an empty original or an empty suggested text has
\* similarity 0.
OneSidedIsZero ==
    /\ \A k \in 1..Len(segments) :
          segments[k].original = <<>> \/ segments[k].suggested = <<>>
              => segments[k].similarity = Zero
    /\ \A k \in 1..Len(result) :
          result[k].original = <<>> \/ result[k].suggested = <<>>
              => result[k].similarity = Zero

\* The aligner skipped original units: a returned deletion-only segment stands
\* before a matched pair.
OneSidedIsZeroWitness ==
    /\ pc = "done"
    /\ Parsed
    /\ \E k \in 1..(Len(result) - 1) :
          /\ result[k].suggested = <<>>
          /\ result[k].original # <<>>
          /\ IsMatch(result[k + 1].similarity)

(***************************************************************************)
(* Properties of extract_linguistic_units (SpecExtract)                    *)
(***************************************************************************)
\* C6 (reconstruction): the texts of the extracted units, concatenated in
\* order, are the document's text.
Reconstruction ==
    pc = "extracted" => Concat(UnitTexts(original_units)) = DocText(original_doc)

\* C9 (unit offsets): every extracted unit has 0 <= start <= end <= len(text)
\* and its text is the document's text from start to end.
UnitOffsets ==
    pc = "extracted" =>
        \A k \in 1..Len(original_units) :
            LET unit == original_units[k]
            IN  /\ 0 <= unit.start
                /\ unit.start <= unit.end
                /\ unit.end <= Len(DocText(original_doc))
                /\ unit.text = Slice(DocText(original_doc), unit.start, unit.end)

\* C10 (ordered, non-overlapping units): each extracted unit ends at or
\* before the start of the next one.
UnitsOrdered ==
    pc = "extracted" =>
        \A k \in 1..(Len(original_units) - 1) :
            original_units[k].end <= original_units[k + 1].start

(***************************************************************************)
(* SpecSimilarity: one call of calculate_unit_similarity(text1, text2).    *)
(* The two texts are held in original and suggested (the aligner passes    *)
(* the text of an original and of a suggested unit), the returned float in *)
(* result.                                                                 *)
(***************************************************************************)
SimilarityWordLists ==
    { <<>>, <<"a">>, <<"a", "b">>, <<"a", "a", "b">>, <<"a", "b", "c">>,
      <<"b", "a", "c">>, <<"a", "b", "d">>, <<"a", "b", "c", "d">>,
      <<"a", "a", "b", "c">> }

WordsText(letters) == Join([k \in 1..Len(letters) |-> <<letters[k]>>])

Capitalized(s) == IF s # <<>> /\ s[1] = "a" THEN <<"A">> \o Tail(s) ELSE s

SimilarityTexts ==
    { lead \o text \o trail :
        lead \in {<<>>, <<" ">>},
        trail \in {<<>>, <<" ">>},
        text \in {WordsText(l) : l \in SimilarityWordLists}
                    \cup {Capitalized(WordsText(l)) : l \in SimilarityWordLists} }

InitSimilarity ==
    /\ pc = "similarity"
    /\ original \in SimilarityTexts
    /\ suggested \in SimilarityTexts
    /\ vec \in VecOutcomes
    /\ original_doc = NoDoc
    /\ suggested_doc = NoDoc
    /\ original_units = <<>>
    /\ suggested_units = <<>>
    /\ segments = <<>>
    /\ i = 0
    /\ j = 0
    /\ result = <<>>
    /\ process = SingleCall

SimilarityCall ==
    /\ pc = "similarity"
    /\ result' = calculate_unit_similarity(original, suggested, vec)
    /\ pc' = "scored"
    /\ UNCHANGED <<original, suggested, vec, original_doc, suggested_doc,
                   original_units, suggested_units, segments, i, j>>
    /\ UNCHANGED process

NextSimilarity == SimilarityCall

SpecSimilarity == InitSimilarity /\ [][NextSimilarity]_vars

(***************************************************************************)
(* Properties of calculate_unit_similarity (SpecSimilarity)                *)
(***************************************************************************)
\* text.strip().lower()
Normalized(text) == Lower(Strip(text))

\* C11 (identical after normalisation), as stated: two texts that are equal
\* after trimming and case-folding score 1.0.
EqualNormalizedIsOne_AnyText ==
    pc = "scored" /\ Normalized(original) = Normalized(suggested)
        => result = One

\* C11 (identical after normalisation), for non-empty texts: two non-empty
\* texts that are equal after trimming and case-folding score 1.0, whatever
\* the vector step would answer.
EqualNormalizedIsOne ==
    pc = "scored" /\ original # <<>> /\ suggested # <<>>
    /\ Normalized(original) = Normalized(suggested)
        => result = One

\* Two different texts of three words, equal after normalisation, scored 1.0
\* although the vector step would have answered 1/2 (a blend would be 17/20).
EqualNormalizedIsOneWitness ==
    /\ pc = "scored"
    /\ original # suggested
    /\ Normalized(original) = Normalized(suggested)
    /\ Cardinality(Range(Split(Normalized(original)))) >= vector_min_words
    /\ vec = VecScore(<<1, 2>>)
    /\ result = One

\* C12 (empty after trimming): a text that is empty after trimming makes the
\* score 0.0, whatever the other text is.
EmptyAfterTrimIsZero ==
    pc = "scored" /\ (Strip(original) = <<>> \/ Strip(suggested) = <<>>)
        => result = Zero

\* C13 (Jaccard and blend): when no text is empty after trimming and the
\* texts differ after trimming and case-folding, the score is
\* 0.7 * jaccard + 0.3 * vector_score exactly when both texts have at least
\* 3 tokens, the vector step answers a score and the score lies in [0, 1];
\* it is the Jaccard ratio of the case-folded token sets in every other case.
JaccardOrBlend ==
    pc = "scored"
    /\ Strip(original) # <<>> /\ Strip(suggested) # <<>>
    /\ Normalized(original) # Normalized(suggested)
        => LET tokens1 == Split(Normalized(original))
               tokens2 == Split(Normalized(suggested))
               jaccard == Jaccard(Range(tokens1), Range(tokens2))
           IN  result =
                 IF /\ Len(tokens1) >= 3
                    /\ Len(tokens2) >= 3
                    /\ vec.kind = "score"
                    /\ InUnitInterval(vec.score)
                 THEN RatAdd(RatMul(<<7, 10>>, jaccard), RatMul(<<3, 10>>, vec.score))
                 ELSE jaccard

(***************************************************************************)
(* SpecBasic: one call of basic_segmentation(original, suggested) on texts *)
(* of up to MaxTextSentences pieces of BasicPieces, separated by single    *)
(* blanks: short texts, texts of more than three words, texts with '. '.   *)
(***************************************************************************)
BasicPieces ==
    { <<"a">>,
      <<"a", " ", "b", " ", "c">>,
      <<"a", " ", "b", " ", "c", " ", "d">>,
      <<"a", ".">>,
      <<"b", " ", "c", ".">> }

BasicTexts ==
    UNION { {Join(ss) : ss \in [1..n -> BasicPieces]} : n \in 0..MaxTextSentences }

InitBasic ==
    /\ pc = "basic"
    /\ original \in BasicTexts
    /\ suggested \in BasicTexts
    /\ vec = NoVector
    /\ original_doc = NoDoc
    /\ suggested_doc = NoDoc
    /\ original_units = <<>>
    /\ suggested_units = <<>>
    /\ segments = <<>>
    /\ i = 0
    /\ j = 0
    /\ result = <<>>
    /\ process = SingleCall

BasicCall ==
    /\ pc = "basic"
    /\ result' = basic_segmentation(original, suggested)
    /\ pc' = "segmented"
    /\ UNCHANGED <<original, suggested, vec, original_doc, suggested_doc,
                   original_units, suggested_units, segments, i, j>>
    /\ UNCHANGED process

NextBasic == BasicCall

SpecBasic == InitBasic /\ [][NextBasic]_vars

(***************************************************************************)
(* Properties of basic_segmentation (SpecBasic)                            *)
(***************************************************************************)
\* C14 (both inputs empty): basic_segmentation("", "") returns the empty list.
BasicBothEmpty ==
    pc = "segmented" /\ original = <<>> /\ suggested = <<>> => result = <<>>

\* C15 (one input empty): basic_segmentation with exactly one empty input
\* returns exactly one segment: the non-empty input unchanged on its side, ""
\* on the other side, similarity 0.
BasicOneEmpty ==
    pc = "segmented" /\ (original = <<>>) # (suggested = <<>>)
        => result = <<[original |-> original, suggested |-> suggested,
                       similarity |-> Zero]>>

(***************************************************************************)
(* Properties of segment_texts (Spec), continued                           *)
(***************************************************************************)
\* original[max_chars:] if len(original) > max_chars else ""
Beyond(text) == IF Len(text) > max_chars THEN SliceFrom(text, max_chars) ELSE <<>>

\* C16 (truncation), as stated: in every call with an argument longer than
\* max_chars the last returned segment is the remainder segment.
TruncationRemainder_EveryCall ==
    pc = "done" /\ (Len(original) > max_chars \/ Len(suggested) > max_chars)
        => /\ result # <<>>
           /\ result[Len(result)] =
                 [original |-> Beyond(original), suggested |-> Beyond(suggested),
                  similarity |-> Zero]

\* C16 (truncation), for the calls that return from the parsed path: the
\* Docs hold the first max_chars characters of the arguments and nothing
\* else; the returned list is the aligner's list after its merge
\* post-process, followed, when an argument is longer than max_chars, by the
\* one remainder segment (the text beyond max_chars on each side, similarity
\* 0), and by nothing when neither argument is longer.
TruncationRemainder ==
    /\ [](Parsed => /\ DocText(original_doc) = Slice(original, 0, max_chars)
                    /\ DocText(suggested_doc) = Slice(suggested, 0, max_chars))
    /\ [][pc = "aligned" =>
            result' = IF Len(original) > max_chars \/ Len(suggested) > max_chars
                      THEN Append(segments,
                                  [original |-> Beyond(original),
                                   suggested |-> Beyond(suggested),
                                   similarity |-> Zero])
                      ELSE segments]_vars

\* A call with a long original and a suggested text within max_chars has
\* returned: the remainder stands last, behind a very short segment that the
\* merge post-process would have merged with a following segment.
TruncationRemainderWitness ==
    /\ pc = "done"
    /\ Parsed
    /\ Len(original) > max_chars
    /\ Len(suggested) <= max_chars
    /\ Len(result) >= 2
    /\ result[Len(result)] = [original |-> SliceFrom(original, max_chars),
                              suggested |-> <<>>, similarity |-> Zero]
    /\ IsShort(result[Len(result) - 1])

(***************************************************************************)
(* SpecConcurrent: two invocations of segment_texts in one process.        *)
(* The module-level parser nlp (lines 28-41) is loaded once and is the     *)
(* only state both invocations reach; the code calls it (lines 140-141)    *)
(* and never assigns it.  Every other name of segment_texts and of its     *)
(* helpers is a local of the invocation: its frame.  The variables of the  *)
(* module hold the frame of the running invocation, process.frames the     *)
(* frame each invocation had when it was last suspended.  Each invocation  *)
(* is first run alone, from call to return, and its list is kept in        *)
(* process.alone; then both are called again and the scheduler switches    *)
(* between them at any step.                                               *)
(***************************************************************************)
\* A parser whose call raises (the model could not be used).
RaisingParser == [split |-> FALSE, fault |-> "raises"]

LoadedParsers == ParserModels \cup {RaisingParser}

ConcurrentOriginals ==
    { <<>>, <<"a", ".">>, <<"a", ".", " ", "a", " ", "b", " ", "c", ".">> }

ConcurrentSuggesteds ==
    { <<"a", ".">>, <<"a", " ", "b", " ", "c", ".">>,
      <<"a", " ", "b", " ", "c", ".", " ", "a", ".">> }

ConcurrentVecs == {VecRaise, VecScore(<<1, 2>>)}

\* The frame of segment_texts(o, s) at its call.
Frame(o, s, v) == <<"start", o, s, v, NoDoc, NoDoc, <<>>, <<>>, <<>>, 0, 0, <<>>>>

\* A frame with the list of segments left out: the list of the invocation
\* that ran last stays in place.
Resume_SharedSegments(frame) ==
    /\ pc' = frame[1]
    /\ original' = frame[2]
    /\ suggested' = frame[3]
    /\ vec' = frame[4]
    /\ original_doc' = frame[5]
    /\ suggested_doc' = frame[6]
    /\ original_units' = frame[7]
    /\ suggested_units' = frame[8]
    /\ segments' = segments
    /\ i' = frame[10]
    /\ j' = frame[11]
    /\ result' = frame[12]

\* The invocation whose frame this is runs on.
Resume(frame) ==
    /\ pc' = frame[1]
    /\ original' = frame[2]
    /\ suggested' = frame[3]
    /\ vec' = frame[4]
    /\ original_doc' = frame[5]
    /\ suggested_doc' = frame[6]
    /\ original_units' = frame[7]
    /\ suggested_units' = frame[8]
    /\ segments' = frame[9]
    /\ i' = frame[10]
    /\ j' = frame[11]
    /\ result' = frame[12]

Other(k) == 3 - k

InitConcurrent ==
    \E o1 \in ConcurrentOriginals, s1 \in ConcurrentSuggesteds,
       o2 \in ConcurrentOriginals, s2 \in ConcurrentSuggesteds,
       v \in ConcurrentVecs, parser \in LoadedParsers :
        /\ process = [phase |-> "alone", nlp |-> parser, running |-> 1,
                      frames |-> <<Frame(o1, s1, v), Frame(o2, s2, v)>>,
                      alone |-> <<>>]
        /\ pc = "start"
        /\ original = o1
        /\ suggested = s1
        /\ vec = v
        /\ original_doc = NoDoc
        /\ suggested_doc = NoDoc
        /\ original_units = <<>>
        /\ suggested_units = <<>>
        /\ segments = <<>>
        /\ i = 0
        /\ j = 0
        /\ result = <<>>

\* Lines 140-141 with the process's parser.
NlpParseShared ==
    /\ process.nlp \in ParserModels
    /\ NlpParse
    /\ original_doc' = nlp(Slice(original, 0, max_chars), process.nlp)
    /\ suggested_doc' = nlp(Slice(suggested, 0, max_chars), process.nlp)

NlpRaiseShared ==
    /\ process.nlp = RaisingParser
    /\ NlpRaise

\* An invocation run alone has returned: its list is kept, and the next
\* invocation is called (the other one alone, then both together).
ReturnAlone ==
    /\ process.phase = "alone"
    /\ pc = "done"
    /\ process' = [process EXCEPT
                      !.alone = Append(@, result),
                      !.running = IF process.running = 1 THEN 2 ELSE 1,
                      !.phase = IF process.running = 1 THEN "alone" ELSE "interleaved"]
    /\ Resume(process.frames[Other(process.running)])

\* The scheduler suspends the running invocation and resumes the other one.
Switch ==
    /\ process.phase = "interleaved"
    /\ process.frames[Other(process.running)][1] # "done"
    /\ process' = [process EXCEPT
                      !.frames[process.running] = locals,
                      !.running = Other(process.running)]
    /\ Resume(process.frames[Other(process.running)])

NextConcurrent ==
    \/ EmptyInput
    \/ NlpParseShared
    \/ NlpRaiseShared
    \/ ExtractUnits
    \/ AlignStart
    \/ Match
    \/ SkipOriginal
    \/ SkipSuggested
    \/ ForceMatch
    \/ Drain
    \/ MergeShort
    \/ Return
    \/ Fallback
    \/ ReturnAlone
    \/ Switch

SpecConcurrent == InitConcurrent /\ [][NextConcurrent]_vars

(***************************************************************************)
(* Properties of concurrent invocations (SpecConcurrent)                   *)
(***************************************************************************)
\* C17 (no interference): whatever the interleaving of two invocations of
\* segment_texts, an invocation returns the list it returned when it ran
\* alone with the same parser, and the parser of the process stays the one
\* that was loaded.
NoInterference ==
    /\ [](process.phase = "interleaved" /\ pc = "done"
             => result = process.alone[process.running])
    /\ [][process'.nlp = process.nlp]_vars

\* An invocation has returned while the other one, with another list to
\* return, is suspended inside the aligner with segments of its own.
NoInterferenceWitness ==
    /\ process.phase = "interleaved"
    /\ pc = "done"
    /\ result = process.alone[process.running]
    /\ process.alone[1] # process.alone[2]
    /\ process.frames[Other(process.running)][1] = "loop"
    /\ process.frames[Other(process.running)][9] # <<>>
    /\ result # <<>>

(***************************************************************************)
(* SpecAlign: one call of align_linguistic_units on two lists of up to     *)
(* MaxUnits units, together at most MaxUnits units and one lookahead       *)
(* window, whose texts are drawn from UnitTextChoices.  With the           *)
(* vector score 0 the texts "a b c." and "B a c." score exactly 0.7, with  *)
(* 1/2 they score 0.85, and "a." scores 0 against both.                    *)
(***************************************************************************)
MaxUnits == 4

UnitTextChoices == InputSentences

AlignVecs == {VecScore(Zero), VecScore(<<1, 2>>)}

UnitLists ==
    UNION { { [k \in 1..n |-> Unit(texts[k], 0, Len(texts[k]))] :
                texts \in [1..n -> UnitTextChoices] } : n \in 0..MaxUnits }

InitAlign ==
    /\ pc = "align"
    /\ original_units \in UnitLists
    /\ suggested_units \in UnitLists
    /\ Len(original_units) + Len(suggested_units) <= MaxUnits + lookahead_window
    /\ vec \in AlignVecs
    /\ original = <<>>
    /\ suggested = <<>>
    /\ original_doc = NoDoc
    /\ suggested_doc = NoDoc
    /\ segments = <<>>
    /\ i = 0
    /\ j = 0
    /\ result = <<>>
    /\ process = SingleCall

NextAlign ==
    \/ AlignStart
    \/ Match
    \/ SkipOriginal
    \/ SkipSuggested
    \/ ForceMatch
    \/ Drain
    \/ MergeShort

SpecAlign == InitAlign /\ [][NextAlign]_vars

(***************************************************************************)
(* Properties of align_linguistic_units (SpecAlign)                        *)
(***************************************************************************)
\* similarity > 0.7, in the claims' own terms
Above07(sim) == 10 * sim[1] > 7 * sim[2]

\* the text of the original unit at index a / of the suggested unit at b
OriginalText(a) == original_units[a + 1].text
SuggestedText(b) == suggested_units[b + 1].text

Last(segs) == segs[Len(segs)]

\* C18 (MATCH step): at cursors (i, j) inside the loop, a similarity above
\* 0.7 makes the step append the one segment of the two unit texts with that
\* similarity and advance both cursors, whatever lies ahead; a similarity of
\* exactly 0.7 is not a match: when the next original unit scores 1.0
\* against suggested[j], the step taken is the deletion of original[i] and
\* j stays.
MatchStep ==
    /\ [][(InLoop /\ Above07(UnitSimilarity(i, j)))
            => (/\ segments' = Append(segments,
                                      [original |-> OriginalText(i),
                                       suggested |-> SuggestedText(j),
                                       similarity |-> UnitSimilarity(i, j)])
                /\ i' = i + 1
                /\ j' = j + 1)]_vars
    /\ [][(InLoop /\ UnitSimilarity(i, j) = <<7, 10>>
             /\ i + 1 < Len(original_units) /\ UnitSimilarity(i + 1, j) = One)
            => (/\ segments' = Append(segments,
                                      [original |-> OriginalText(i),
                                       suggested |-> <<>>,
                                       similarity |-> Zero])
                /\ i' = i + 1
                /\ j' = j)]_vars

\* The first pair scored exactly 0.7 and was not matched: original[0] was
\* emitted as deleted, then original[1] matched suggested[0] with 1.0.
MatchStepWitness ==
    /\ pc = "loop"
    /\ i = 2
    /\ j = 1
    /\ UnitSimilarity(0, 0) = <<7, 10>>
    /\ Len(segments) = 2
    /\ segments[1] = [original |-> OriginalText(0), suggested |-> <<>>,
                      similarity |-> Zero]
    /\ segments[2] = [original |-> OriginalText(1), suggested |-> SuggestedText(0),
                      similarity |-> One]

\* An original unit at i+1, i+2 or i+3 scores above 0.7 against suggested[j].
AheadOriginal ==
    \E m \in (i + 1)..(i + 3) :
        m < Len(original_units) /\ Above07(UnitSimilarity(m, j))

\* A suggested unit at j+1, j+2 or j+3 scores above 0.7 against original[i].
AheadSuggested ==
    \E n \in (j + 1)..(j + 3) :
        n < Len(suggested_units) /\ Above07(UnitSimilarity(i, n))

\* C19 (lookahead window): in a non-matching iteration, an original unit at
\* i+1, i+2 or i+3 that scores above 0.7 against suggested[j] is found (the
\* step skips original units and j stays), however few suggested units
\* remain; and when no such original unit exists, a suggested unit at j+1,
\* j+2 or j+3 that scores above 0.7 against original[i] is found (the step
\* skips suggested units and i stays), however few original units remain.
WindowIndependent ==
    /\ [][(InLoop /\ ~Above07(UnitSimilarity(i, j)) /\ AheadOriginal)
            => (i' > i /\ j' = j)]_vars
    /\ [][(InLoop /\ ~Above07(UnitSimilarity(i, j)) /\ ~AheadOriginal
             /\ AheadSuggested)
            => (i' = i /\ j' > j)]_vars

\* C20 (SKIP_ORIGINAL step): when the lookahead finds the original unit at
\* index m matching suggested[j], the step appends the one segment of the
\* texts of original[i..m-1] with an empty suggested text and similarity 0,
\* sets i to m and leaves j; the loop is then at a pair that scores above
\* 0.7, and its very next step appends original[m] paired with suggested[j]
\* with that score and advances both cursors.
SkipOriginalStep ==
    /\ [][InLoop /\ ~Above07(UnitSimilarity(i, j)) /\ best_original_match # -1
            => /\ best_original_match > i
               /\ segments' = Append(segments,
                     [original |-> Concat([k \in 1..(best_original_match - i) |->
                                              OriginalText(i + k - 1)]),
                      suggested |-> <<>>,
                      similarity |-> Zero])
               /\ i' = best_original_match
               /\ j' = j]_vars
    /\ [](pc = "loop" /\ segments # <<>> /\ Last(segments).suggested = <<>>
            => InLoop /\ Above07(UnitSimilarity(i, j)))
    /\ [][pc = "loop" /\ segments # <<>> /\ Last(segments).suggested = <<>>
            => /\ segments' = Append(segments,
                                     [original |-> OriginalText(i),
                                      suggested |-> SuggestedText(j),
                                      similarity |-> UnitSimilarity(i, j)])
               /\ i' = i + 1
               /\ j' = j + 1]_vars

\* Two original units were skipped in one segment and the unit they led to
\* has been matched with the suggested unit that waited.
SkipOriginalStepWitness ==
    /\ pc = "loop"
    /\ i = 3
    /\ j = 1
    /\ Len(segments) = 2
    /\ segments[1] = [original |-> OriginalText(0) \o OriginalText(1),
                      suggested |-> <<>>, similarity |-> Zero]
    /\ segments[2].original = OriginalText(2)
    /\ segments[2].suggested = SuggestedText(0)
    /\ Above07(segments[2].similarity)

\* The lookahead of this iteration finds an original unit that scores above
\* 0.7 against suggested[j] / a suggested unit that scores above 0.7 against
\* original[i], inside the window the code searches.
OriginalMatchAhead ==
    \E m \in (i + 1)..(i + MaxLookahead) :
        m < Len(original_units) /\ Above07(UnitSimilarity(m, j))

SuggestedMatchAhead ==
    \E n \in (j + 1)..(j + MaxLookahead) :
        n < Len(suggested_units) /\ Above07(UnitSimilarity(i, n))

\* C21 (SKIP_SUGGESTED step): a step of the loop that advances j alone is
\* taken only when no original-side lookahead match exists; an original-side
\* match takes precedence over any suggested-side match (i jumps, j stays);
\* without one, a suggested-side match at index n makes the step append the
\* one segment with an empty original text, the texts of suggested[j..n-1]
\* and similarity 0, set j to n and leave i.
SkipSuggestedStep ==
    /\ [][(pc = "loop" /\ pc' = "loop" /\ i' = i /\ j' > j)
            => ~OriginalMatchAhead]_vars
    /\ [][(InLoop /\ ~Above07(UnitSimilarity(i, j)) /\ OriginalMatchAhead
             /\ SuggestedMatchAhead)
            => (i' > i /\ j' = j)]_vars
    /\ [][(InLoop /\ ~Above07(UnitSimilarity(i, j)) /\ ~OriginalMatchAhead
             /\ SuggestedMatchAhead)
            => (/\ best_suggested_match > j
                /\ segments' = Append(segments,
                      [original |-> <<>>,
                       suggested |-> Concat([k \in 1..(best_suggested_match - j) |->
                                                SuggestedText(j + k - 1)]),
                       similarity |-> Zero])
                /\ j' = best_suggested_match
                /\ i' = i)]_vars

\* Two suggested units were skipped in one insertion-only segment and the
\* unit they led to has been matched with the original unit that waited.
SkipSuggestedStepWitness ==
    /\ pc = "loop"
    /\ i = 1
    /\ j = 3
    /\ Len(segments) = 2
    /\ segments[1] = [original |-> <<>>,
                      suggested |-> SuggestedText(0) \o SuggestedText(1),
                      similarity |-> Zero]
    /\ segments[2].original = OriginalText(0)
    /\ segments[2].suggested = SuggestedText(2)

\* C22 (FORCE_MATCH step): when the pair at the cursors scores at most 0.7
\* and neither lookahead finds a match, the step appends the pair with the
\* similarity computed for it and advances both cursors by one.
ForceMatchStep ==
    [][(InLoop /\ ~Above07(UnitSimilarity(i, j)) /\ ~OriginalMatchAhead
          /\ ~SuggestedMatchAhead)
        => (/\ segments' = Append(segments,
                                  [original |-> OriginalText(i),
                                   suggested |-> SuggestedText(j),
                                   similarity |-> UnitSimilarity(i, j)])
            /\ i' = i + 1
            /\ j' = j + 1)]_vars

\* A pair that scores exactly 0.7 was emitted with that similarity, behind
\* a matched pair.
ForceMatchStepWitness ==
    /\ pc = "loop"
    /\ i = 2
    /\ j = 2
    /\ Len(segments) = 2
    /\ Above07(segments[1].similarity)
    /\ segments[2] = [original |-> OriginalText(1), suggested |-> SuggestedText(1),
                      similarity |-> <<7, 10>>]

\* m is the lookahead target among the original units of the window: it
\* scores above 0.7 against suggested[j], no unit of the window scores
\* higher, and no earlier unit of the window scores as high.
IsOriginalTarget(m) ==
    /\ m \in (i + 1)..(i + MaxLookahead)
    /\ m < Len(original_units)
    /\ Above07(UnitSimilarity(m, j))
    /\ \A m2 \in (i + 1)..(i + MaxLookahead) :
          m2 < Len(original_units) =>
              /\ RatLeq(UnitSimilarity(m2, j), UnitSimilarity(m, j))
              /\ UnitSimilarity(m2, j) = UnitSimilarity(m, j) => m <= m2

IsSuggestedTarget(n) ==
    /\ n \in (j + 1)..(j + MaxLookahead)
    /\ n < Len(suggested_units)
    /\ Above07(UnitSimilarity(i, n))
    /\ \A n2 \in (j + 1)..(j + MaxLookahead) :
          n2 < Len(suggested_units) =>
              /\ RatLeq(UnitSimilarity(i, n2), UnitSimilarity(i, n))
              /\ UnitSimilarity(i, n2) = UnitSimilarity(i, n) => n <= n2

\* C30 (choice of the lookahead target): in a non-matching iteration with
\* original units of the window matching suggested[j], i jumps to the one
\* with the highest similarity, the earliest on ties, and the units before
\* it, matching or not, go into the deletion-only segment; without an
\* original-side match the same rule selects the suggested unit j jumps to.
LookaheadTarget ==
    /\ [][(InLoop /\ ~Above07(UnitSimilarity(i, j)) /\ OriginalMatchAhead)
            => (/\ IsOriginalTarget(i')
                /\ j' = j
                /\ segments' = Append(segments,
                      [original |-> Concat([k \in 1..(i' - i) |-> OriginalText(i + k - 1)]),
                       suggested |-> <<>>, similarity |-> Zero]))]_vars
    /\ [][(InLoop /\ ~Above07(UnitSimilarity(i, j)) /\ ~OriginalMatchAhead
             /\ SuggestedMatchAhead)
            => (/\ IsSuggestedTarget(j')
                /\ i' = i
                /\ segments' = Append(segments,
                      [original |-> <<>>,
                       suggested |-> Concat([k \in 1..(j' - j) |-> SuggestedText(j + k - 1)]),
                       similarity |-> Zero]))]_vars

\* The original unit at index 1 scored above 0.7 against suggested[0] and the
\* unit at index 2 scored higher: i jumped to 2 and the nearer matching unit
\* is in the deletion-only segment.
LookaheadTargetWitness ==
    /\ pc = "loop"
    /\ i = 2
    /\ j = 0
    /\ Above07(UnitSimilarity(1, 0))
    /\ RatLess(UnitSimilarity(1, 0), UnitSimilarity(2, 0))
    /\ segments = <<[original |-> OriginalText(0) \o OriginalText(1),
                     suggested |-> <<>>, similarity |-> Zero]>>

\* len(text.split())
WordCount(text) == Len(Split(text))

\* A segment is short: both sides have at most one word, or one side is
\* empty and the other has at most two words.
ShortSegment(seg) ==
    \/ WordCount(seg.original) <= 1 /\ WordCount(seg.suggested) <= 1
    \/ seg.original = <<>> /\ WordCount(seg.suggested) <= 2
    \/ seg.suggested = <<>> /\ WordCount(seg.original) <= 2

RECURSIVE MergePass(_, _)
\* The left-to-right pass over the segments that follow the current one.
MergePass(current, rest) ==
    IF rest = <<>> THEN <<current>>
    ELSE IF ShortSegment(current)
         THEN MergePass([original |-> current.original \o Head(rest).original,
                         suggested |-> current.suggested \o Head(rest).suggested,
                         similarity |-> Zero],
                        Tail(rest))
         ELSE <<current>> \o MergePass(Head(rest), Tail(rest))

\* C24 (merge post-process): with at least two segments, one left-to-right
\* pass merges the current segment, merged or not, into the next one exactly
\* when it is short: the texts are concatenated side by side and the
\* similarity is 0; a segment that is not short is emitted as it is and the
\* last remaining segment is emitted even when it is short; with fewer than
\* two segments the list is left as it is.
MergePostProcess ==
    [][pc = "merge"
        => segments' = IF Len(segments) >= 2
                       THEN MergePass(Head(segments), Tail(segments))
                       ELSE segments]_vars

\* Three pairs of identical one-word units, matched with 1.0 each, have been
\* merged into one segment of similarity 0, which is short and stands last.
MergePostProcessWitness ==
    /\ pc = "aligned"
    /\ Len(original_units) = 3
    /\ Len(suggested_units) = 3
    /\ \A k \in 0..2 : OriginalText(k) = SuggestedText(k) /\ WordCount(OriginalText(k)) = 1
    /\ Len(segments) = 1
    /\ segments[1].original = segments[1].suggested
    /\ segments[1].similarity = Zero
    /\ ShortSegment(segments[1])

(***************************************************************************)
(* SpecAlignFaults: align_linguistic_units with the failures its handlers  *)
(* are written for.  The processing of a pair may raise inside the loop    *)
(* (lines 468-477 recover); an exception may escape the loop's recovery,   *)
(* the early returns, the drain or the merge (lines 521-529 fall back to   *)
(* basic_segmentation on the two Docs' texts), and the fallback may raise  *)
(* in its turn (lines 530-536).  The Docs are the ones the units came      *)
(* from, one sentence per unit, or None.                                   *)
(***************************************************************************)
\* The Doc whose sentences are these units.
UnitsDoc(units) == nlp(Join(UnitTexts(units)), [split |-> TRUE, fault |-> "none"])

\* original_doc.text if original_doc else ""
TextOrEmpty(doc) == IF doc = NoDoc THEN <<>> ELSE DocText(doc)

InitAlignFaults ==
    /\ pc = "align"
    /\ original_units \in UnitLists
    /\ suggested_units \in UnitLists
    /\ Len(original_units) + Len(suggested_units) <= MaxUnits + 2
    /\ vec \in AlignVecs
    /\ original = <<>>
    /\ suggested = <<>>
    /\ \E has_docs \in BOOLEAN :
          /\ original_doc = IF has_docs THEN UnitsDoc(original_units) ELSE NoDoc
          /\ suggested_doc = IF has_docs THEN UnitsDoc(suggested_units) ELSE NoDoc
    /\ segments = <<>>
    /\ i = 0
    /\ j = 0
    /\ result = <<>>
    /\ process = SingleCall

\* Lines 468-477 without the recovery segment.
PairError_DropsPair ==
    /\ InLoop
    /\ segments' = segments
    /\ i' = i + 1
    /\ j' = j + 1
    /\ UNCHANGED <<pc, original, suggested, vec, original_doc, suggested_doc,
                   original_units, suggested_units, result>>
    /\ UNCHANGED process

\* Lines 468-477: the pair at the cursors raised; the loop goes on.
PairError ==
    /\ InLoop
    /\ segments' = Append(segments,
            Segment(IF i < Len(original_units) THEN original_units[i + 1].text ELSE <<>>,
                    IF j < Len(suggested_units) THEN suggested_units[j + 1].text ELSE <<>>,
                    Zero))
    /\ i' = i + 1
    /\ j' = j + 1
    /\ UNCHANGED <<pc, original, suggested, vec, original_doc, suggested_doc,
                   original_units, suggested_units, result>>
    /\ UNCHANGED process

\* Lines 521-529: an exception reached the function's handler.
FatalFallback_KeepsSegments ==
    /\ pc \in {"align", "loop", "merge"}
    /\ segments' = segments \o basic_segmentation(TextOrEmpty(original_doc),
                                                  TextOrEmpty(suggested_doc))
    /\ pc' = "fell_back"
    /\ UNCHANGED <<i, j, original, suggested, vec, original_doc, suggested_doc,
                   original_units, suggested_units, result>>
    /\ UNCHANGED process

FatalFallback ==
    /\ pc \in {"align", "loop", "merge"}
    /\ segments' = basic_segmentation(TextOrEmpty(original_doc),
                                      TextOrEmpty(suggested_doc))
    /\ pc' = "fell_back"
    /\ UNCHANGED <<i, j, original, suggested, vec, original_doc, suggested_doc,
                   original_units, suggested_units, result>>
    /\ UNCHANGED process

\* Lines 530-536: basic_segmentation raised as well.
UltimateFallback ==
    /\ pc \in {"align", "loop", "merge"}
    /\ segments' = <<Segment(TextOrEmpty(original_doc), TextOrEmpty(suggested_doc),
                             Zero)>>
    /\ pc' = "fell_back_whole"
    /\ UNCHANGED <<i, j, original, suggested, vec, original_doc, suggested_doc,
                   original_units, suggested_units, result>>
    /\ UNCHANGED process

NextAlignFaults ==
    \/ AlignStart
    \/ Match
    \/ SkipOriginal
    \/ SkipSuggested
    \/ ForceMatch
    \/ PairError
    \/ Drain
    \/ MergeShort
    \/ FatalFallback
    \/ UltimateFallback

SpecAlignFaults == InitAlignFaults /\ [][NextAlignFaults]_vars

\* C23: when the processing of a pair raises, the loop appends exactly one
\* segment holding the current original unit's text and the current suggested
\* unit's text with similarity 0, moves both cursors forward by one, and goes
\* on with the loop: the call is not abandoned.
PairErrorRecovery ==
    [][(/\ InLoop
        /\ pc' = "loop"
        /\ ~(Match \/ SkipOriginal \/ SkipSuggested \/ ForceMatch))
        => (/\ segments' = Append(segments,
                    Segment(OriginalText(i), SuggestedText(j), Zero))
            /\ i' = i + 1
            /\ j' = j + 1
            /\ original_units' = original_units
            /\ suggested_units' = suggested_units)]_vars

\* The first pair, two equal texts, raised and was recorded with similarity 0
\* (a match would have recorded 1); the loop is at the second pair.
PairErrorRecoveryWitness ==
    /\ InLoop
    /\ i = 1
    /\ j = 1
    /\ OriginalText(0) = SuggestedText(0)
    /\ segments = <<Segment(OriginalText(0), SuggestedText(0), Zero)>>

\* C25: align_linguistic_units never propagates an exception: every step that
\* leaves the regular course of the function ends the call with a returned
\* value, which is basic_segmentation applied to the two documents' texts or,
\* when that fails too, the single segment of the two whole texts with
\* similarity 0; the segments built before the error are not part of it.
FatalErrorFallback ==
    /\ [](pc \in {"align", "loop", "merge", "aligned", "fell_back", "fell_back_whole"})
    /\ [][(pc \in {"align", "loop", "merge"} /\ pc' \notin {"loop", "merge", "aligned"})
           => (\/ /\ pc' = "fell_back"
                  /\ segments' = basic_segmentation(TextOrEmpty(original_doc),
                                                    TextOrEmpty(suggested_doc))
               \/ /\ pc' = "fell_back_whole"
                  /\ segments' = <<Segment(TextOrEmpty(original_doc),
                                           TextOrEmpty(suggested_doc), Zero)>>)]_vars
    /\ [][(pc \in {"fell_back", "fell_back_whole"}) => (segments' = segments)]_vars

\* The error came after two pairs had been processed: the two segments built
\* so far are gone and the fallback's segments of the documents' texts, more
\* than one, are returned.
FatalErrorFallbackWitness ==
    /\ pc = "fell_back"
    /\ i + j >= 4
    /\ original_doc # NoDoc
    /\ Len(segments) >= 2
    /\ Originals(segments) # <<>>

\* The fallback failed as well: one segment of the whole texts, after the
\* loop had begun.
UltimateFallbackWitness ==
    /\ pc = "fell_back_whole"
    /\ i + j >= 2
    /\ segments = <<Segment(DocText(original_doc), DocText(suggested_doc), Zero)>>
    /\ DocText(original_doc) # <<>>

\* The main loop's iterations so far: each appends exactly one segment.
Iterations == Len(segments)

\* C28: every iteration of the main loop strictly increases i + j and never
\* decreases i or j; a step that skips units ahead leaves both cursors on an
\* existing unit (i <= len(original_units) - 1, j <= len(suggested_units) - 1);
\* the loop has run at most len(original_units) + len(suggested_units)
\* iterations when it ends, and the drain and the merge that follow are each
\* one bounded pass that ends the call: the drain empties both lists and the
\* merge visits each segment once.
AlignerProgress ==
    /\ [][(pc = "loop" /\ pc' = "loop")
           => (/\ i' >= i
               /\ j' >= j
               /\ i' + j' > i + j
               /\ Len(segments') = Iterations + 1)]_vars
    /\ [][(pc = "loop" /\ pc' = "loop" /\ (i' = i \/ j' = j))
           => (/\ i' <= Len(original_units) - 1
               /\ j' <= Len(suggested_units) - 1)]_vars
    /\ [](pc = "loop"
           => (/\ i <= Len(original_units)
               /\ j <= Len(suggested_units)
               /\ Iterations <= i + j
               /\ Iterations <= Len(original_units) + Len(suggested_units)))
    /\ [][(pc = "loop" /\ pc' = "merge")
           => (/\ ~InLoop
               /\ i' = Len(original_units)
               /\ j' = Len(suggested_units)
               /\ Len(segments') = Iterations + (Len(original_units) - i)
                                              + (Len(suggested_units) - j))]_vars
    /\ [][(pc = "merge" /\ pc' # "fell_back" /\ pc' # "fell_back_whole")
           => (pc' = "aligned" /\ Len(segments') <= Len(segments))]_vars

\* A skip over two original units has put the cursor on the last original
\* unit, with the suggested cursor where it was.
AlignerProgressWitness ==
    /\ InLoop
    /\ Len(original_units) = 3
    /\ i = 2
    /\ j = 0
    /\ segments = <<DeletionSegment(CombinedText(original_units, 0, 2))>>

\* The texts of the first n units, concatenated.
Consumed(units, n) == Concat(UnitTexts(SubSeq(units, 1, n)))

\* C29: in a call that does not take the fatal fallback, the units are
\* consumed once each and in order: inside the loop the segments' original
\* fields concatenated are the texts of the original units before the cursor
\* i, and the same for the suggested side and j; before the merge and in the
\* returned list (after it) the concatenations are the texts of all the units
\* of each side; the merge never increases the number of segments.
UnitConservation ==
    /\ [](pc = "loop"
           => (/\ Originals(segments) = Consumed(original_units, i)
               /\ Suggesteds(segments) = Consumed(suggested_units, j)))
    /\ [](pc \in {"merge", "aligned"}
           => (/\ Originals(segments) = Concat(UnitTexts(original_units))
               /\ Suggesteds(segments) = Concat(UnitTexts(suggested_units))))
    /\ [][(pc = "merge" /\ pc' = "aligned")
           => (Len(segments') <= Len(segments))]_vars

\* A call that skipped a suggested unit, recovered from a failed pair and
\* merged short segments has returned fewer segments than the loop built.
UnitConservationWitness ==
    /\ pc = "aligned"
    /\ Len(original_units) >= 2
    /\ Len(suggested_units) >= 3
    /\ Len(segments) >= 2
    /\ Len(segments) < Len(original_units)
    /\ Originals(segments) = Concat(UnitTexts(original_units))

(***************************************************************************)
(* basic_segmentation: the word-chunk path and the sentence path           *)
(* (SpecBasic)                                                             *)
(***************************************************************************)
\* The number of '. '-separated parts and of whitespace-delimited words.
Sentences(text) == Len(SplitDotSpace(text))
Words(text) == Len(Split(text))

\* The one-segment case of short texts.
ShortTexts(o, s) ==
    /\ Sentences(o) = 1
    /\ Sentences(s) = 1
    /\ Words(o) <= short_text_words
    /\ Words(s) <= short_text_words

\* The k-th group of chunk_size words of a text, joined by single blanks;
\* "" once the text is exhausted.
Chunk(text, k) ==
    LET words == Split(text)
        first == (k - 1) * chunk_size + 1
    IN  IF first > Len(words) THEN <<>>
        ELSE Join(SubSeq(words, first, Min(first + chunk_size - 1, Len(words))))

CeilDiv(a, b) == (a + b - 1) \div b

\* The result is the positional pairing of the two sides' chunks.
IsChunkPairing(segs, o, s) ==
    /\ Len(segs) = CeilDiv(Max(Words(o), Words(s)), chunk_size)
    /\ \A k \in 1..Len(segs) :
          /\ segs[k].original = Chunk(o, k)
          /\ segs[k].suggested = Chunk(s, k)

\* C26 as stated, "on either side" read as it is used for the inputs of the
\* other rules (at least one side): whenever one side has fewer than 2
\* '. '-separated parts and the short-text case does not apply, the result is
\* the chunk pairing.
WordChunkPath_EitherSide ==
    (pc = "segmented"
        /\ (Sentences(original) < 2 \/ Sentences(suggested) < 2)
        /\ ~ShortTexts(original, suggested))
    => IsChunkPairing(result, original, suggested)

\* C26: when fewer than 2 '. '-separated parts were found on both sides and
\* the short-text case does not apply, the result pairs positionally the
\* consecutive chunks of 3 whitespace-delimited words of each side, the
\* shorter side giving "" once exhausted, in ceil(max(words) / 3) segments.
WordChunkPath ==
    (pc = "segmented"
        /\ Sentences(original) < 2
        /\ Sentences(suggested) < 2
        /\ ~ShortTexts(original, suggested))
    => IsChunkPairing(result, original, suggested)

\* Seven words against four: three segments, the last with "" on the
\* suggested side.
WordChunkPathWitness ==
    /\ pc = "segmented"
    /\ Sentences(original) < 2
    /\ Sentences(suggested) < 2
    /\ Words(original) = 7
    /\ Words(suggested) = 4
    /\ Len(result) = 3
    /\ result[3].suggested = <<>>
    /\ result[3].original # <<>>

\* The k-th '. '-separated part of a text with the delimiter appended back;
\* "" past the last part.
PartWithDelimiter(text, k) ==
    LET parts == SplitDotSpace(text)
    IN  IF k <= Len(parts) THEN parts[k] \o <<".", " ">> ELSE <<>>

\* C27: on the sentence path the '. '-separated parts of the two inputs are
\* paired by index, each with the delimiter appended back, so that the parts
\* of one side concatenated reproduce that input; an index present on one
\* side only gives a segment with "" on the other side; no segment has both
\* sides empty; each similarity is 1.0 if the two fragments are equal strings
\* and 0.0 otherwise.
SentencePath ==
    (pc = "segmented" /\ (Sentences(original) > 1 \/ Sentences(suggested) > 1))
    => (/\ Len(result) = Max(Sentences(original), Sentences(suggested))
        /\ \A k \in 1..Len(result) :
              /\ result[k].original = PartWithDelimiter(original, k)
              /\ result[k].suggested = PartWithDelimiter(suggested, k)
              /\ ~(result[k].original = <<>> /\ result[k].suggested = <<>>)
              /\ result[k].similarity
                    = ExactMatch(result[k].original, result[k].suggested)
        /\ Originals(result) = original
        /\ Suggesteds(result) = suggested)

\* The same without the reproduction of the inputs: the pairing by index,
\* the one-sided segments and the binary similarity.
SentencePairing ==
    (pc = "segmented" /\ (Sentences(original) > 1 \/ Sentences(suggested) > 1))
    => (/\ Len(result) = Max(Sentences(original), Sentences(suggested))
        /\ \A k \in 1..Len(result) :
              /\ result[k].original = PartWithDelimiter(original, k)
              /\ result[k].suggested = PartWithDelimiter(suggested, k)
              /\ ~(result[k].original = <<>> /\ result[k].suggested = <<>>)
              /\ result[k].similarity
                    = ExactMatch(result[k].original, result[k].suggested))

\* The delimiter is appended to the last part too: the originals
\* concatenated are the input followed by '. '.
SentencePathTrailingDelimiter ==
    /\ pc = "segmented"
    /\ Sentences(original) > 1
    /\ Originals(result) = original \o <<".", " ">>

====
